---- MODULE Spec2Model ----
(***************************************************************************)
(* A model of stream-fitter: PipeFitter builds one chat client per config  *)
(* entry, wires every client's outer_tx with the tx handle of every other  *)
(* client (pipe_fitter.rs), spawns one task per client, and each client    *)
(* relays platform events to its peers' bounded mpsc queues and posts what *)
(* it dequeues to its own channels (clients/twitch.rs, clients/discord.rs).*)
(*                                                                         *)
(* A tx handle (Sender<Message>) is modelled by the index of the client    *)
(* whose rx it feeds.  Message records carry two history fields, origin    *)
(* (index of the client whose ingress built it) and n (ordinal of the      *)
(* platform event it was built from); the program does not read them.      *)
(***************************************************************************)
EXTENDS Integers, Sequences, FiniteSets, TLC

VARIABLES
    config,      \* PipeFitterConfig.stream_configs, as deserialized
    pc,          \* position of the main thread (entrypoint / from_config / run)
    clients,     \* Vec<Client> built by from_config, later wrapped in Arc<Mutex<_>>
    client_map,  \* HashMap<String, Vec<Sender<Message>>> of from_config
    wrapped,     \* number of clients drained into pipe_fitter_clients
    next,        \* number of clients pulled from self.clients.drain(..) in run
    status,      \* per client task: "none" (not spawned), "running", "stopped", "failed"
    loop_tx,     \* per client: the outer_tx vector run() moved out of the client struct
    rxq,         \* per client: buffer of its mpsc channel
    sends,       \* per client: in-flight fan-outs (Twitch loop body / Discord handler tasks)
    ready,       \* Discord: state of the ready handler task
    relayed,     \* per client: platform send calls made by its ingress duty, in order
    posted,      \* per client: platform send calls made by its egress duty, in order
    seen,        \* platform events handed to each client's ingress
    sendlog,     \* outcome of every stream.send(..).await
    events,      \* number of platform events delivered so far
    ctor_err,    \* index of the config entry whose constructor returned Err, 0 if none
    guard,       \* per client: its Mutex (holding task, waiting tasks, times locked)
    closed       \* per client: its platform connection has ended

vars == <<config, pc, clients, client_map, wrapped, next, status, loop_tx, rxq,
          sends, ready, relayed, posted, seen, sendlog, events, ctor_err, guard,
          closed>>

-----------------------------------------------------------------------------
(* Bounds of the model *)

\* Largest number of entries of stream_configs.
MaxClients == 3

\* Number of platform events delivered over a run.
MaxEvents == 2

\* Number of clients whose platform connection ends over a run.
MaxEnded == 1

\* Capacity of each client's mpsc channel in the model (channel(100) in the source).
QueueCap == 1

\* Number of platform calls of the egress duties that fail over a run.
MaxPostErrs == 1

-----------------------------------------------------------------------------
(* Configuration *)

None == <<>>

Some(v) == <<v>>

\* Option<bool> fields of the configs as they are read in the model.
OptionBool == {None, Some(TRUE)}

TwitchChannels == <<"c1", "c2">>

\* Discord channel ids (u64), written as their decimal digits.
DiscordChannelIds == <<"11", "12">>

\* Login of the configured Twitch bot (TwitchConfig.name).
BotName == "bot"

TwitchConfigs ==
    [kind : {"Twitch"}, name : {BotName}, channels : {TwitchChannels},
     isolate_channels : OptionBool, forward_only : OptionBool]

DiscordConfigs ==
    [kind : {"Discord"}, name : {BotName}, channels : {DiscordChannelIds},
     isolate_channels : OptionBool, forward_only : OptionBool]

ClientConfig == TwitchConfigs \cup DiscordConfigs

\* An entry that sets one of the optional fields.
SetsOptions(cfg) == cfg.isolate_channels # None \/ cfg.forward_only # None

\* The configuration files read: up to MaxClients entries of either kind, of
\* which at most one sets optional fields (the others take the defaults).
PipeFitterConfig ==
    UNION {{f \in [1..n -> ClientConfig] :
               \A i, j \in 1..n : SetsOptions(f[i]) /\ SetsOptions(f[j]) => i = j}
           : n \in 1..MaxClients}

\* match config.isolate_channels { Some(setting) => setting, None => false }
UnwrapOrFalse(opt) == IF opt = None THEN FALSE ELSE opt[1]

\* nanoid!(): a random identifier.  Only equality of ids is observable, so the
\* i-th id is either fresh (named i) or collides with an id generated before.
NanoidAny(built) == {Len(built) + 1} \cup {built[j].id : j \in 1..Len(built)}

\* nanoid!() under the data model's assumption that generated ids are unique.
Nanoid(built) == {Len(built) + 1}

\* Twitch::from_config / Discord::from_config (DiscordHandler::new)
FromConfig(id, cfg) ==
    [kind |-> cfg.kind,
     id |-> id,
     name |-> cfg.name,
     channels |-> cfg.channels,
     outer_tx |-> <<>>,
     isolate_channels |-> UnwrapOrFalse(cfg.isolate_channels),
     forward_only |-> UnwrapOrFalse(cfg.forward_only),
     taken |-> FALSE]

-----------------------------------------------------------------------------
(* Helpers on sequences *)

Range(s) == {s[i] : i \in 1..Len(s)}

N == Len(config)

Clients == 1..N

-----------------------------------------------------------------------------
(* PipeFitter::from_config *)

\* The filter of the wiring pass: clients.iter().filter(|other| other.get_id() != client.get_id())
OtherClientWithSelf(cs, i, other) == TRUE

OtherClient(cs, i, other) == other.id # cs[i].id

RECURSIVE StreamsFrom(_, _, _)
\* The tx handles of the clients j..Len(cs) that pass the filter for client i,
\* in the order of the clients vector: other_client.get_stream().unwrap().
StreamsFrom(cs, i, j) ==
    IF j > Len(cs) THEN <<>>
    ELSE (IF OtherClient(cs, i, cs[j]) THEN <<j>> ELSE <<>>) \o StreamsFrom(cs, i, j + 1)

\* The handles of all clients, the client's own included.
StreamsForAll(cs, i) == [j \in 1..Len(cs) |-> j]

\* The Vec<Sender<Message>> collected for client i.
StreamsFor(cs, i) == StreamsFrom(cs, i, 1)

\* .collect::<HashMap<..>>(): one entry per id; a later client with the same
\* id overwrites the entry of an earlier one.
CollectMap(cs) ==
    [k \in {cs[i].id : i \in 1..Len(cs)} |->
        LET last == CHOOSE i \in 1..Len(cs) :
                        /\ cs[i].id = k
                        /\ \A j \in 1..Len(cs) : cs[j].id = k => j <= i
        IN  StreamsFor(cs, last)]

\* The state when entrypoint calls from_config on the deserialized config.
Start ==
    /\ pc = "build"
    /\ clients = <<>>
    /\ client_map = <<>>
    /\ wrapped = 0
    /\ next = 0
    /\ status = [e \in 1..Len(config) |-> "none"]
    /\ loop_tx = [e \in 1..Len(config) |-> <<>>]
    /\ rxq = [e \in 1..Len(config) |-> <<>>]
    /\ sends = [e \in 1..Len(config) |-> {}]
    /\ ready = [e \in 1..Len(config) |-> "none"]
    /\ relayed = [e \in 1..Len(config) |-> <<>>]
    /\ posted = [e \in 1..Len(config) |-> <<>>]
    /\ seen = {}
    /\ sendlog = {}
    /\ events = 0
    /\ ctor_err = 0
    /\ guard = [e \in 1..Len(config) |-> [holder |-> 0, waiting |-> {}, locks |-> 0]]
    /\ closed = [e \in 1..Len(config) |-> FALSE]

Init ==
    /\ config \in PipeFitterConfig
    /\ Start

\* .map(|stream_config| ClientConfig::from_config(nanoid!(), stream_config)):
\* one client is built per step, in config order.
BuildClient ==
    /\ pc = "build"
    /\ Len(clients) < N
    /\ \E id \in Nanoid(clients) :
          clients' = Append(clients, FromConfig(id, config[Len(clients) + 1]))
    /\ UNCHANGED <<config, closed, guard, ctor_err, pc, client_map, wrapped, next, status, loop_tx, rxq,
                   sends, ready, relayed, posted, seen, sendlog, events>>

\* The same step without the assumption that nanoid!() never repeats an id.
BuildClientAnyId ==
    /\ pc = "build"
    /\ Len(clients) < N
    /\ \E id \in NanoidAny(clients) :
          clients' = Append(clients, FromConfig(id, config[Len(clients) + 1]))
    /\ UNCHANGED <<config, closed, guard, ctor_err, pc, client_map, wrapped, next, status, loop_tx, rxq,
                   sends, ready, relayed, posted, seen, sendlog, events>>

\* What from_config does when a constructor returns Err: `?` on the collected
\* FitterResult returns it to entrypoint.  "retry" would call the constructor
\* again for the same entry.
OnConstructorErrRetry == "build"

OnConstructorErr == "err"

\* The same step with the result type of ClientConfig::from_config,
\* FitterResult<Client>: Ok(client), or Err(_), which ends the collect at this
\* entry.  (Twitch::from_config and Discord::from_config as written return Ok
\* for every config; Err is the result their signature allows.)
BuildClientResult ==
    /\ pc = "build"
    /\ Len(clients) < N
    /\ \/ /\ \E id \in Nanoid(clients) :
                clients' = Append(clients, FromConfig(id, config[Len(clients) + 1]))
          /\ UNCHANGED <<pc, ctor_err>>
       \/ /\ ctor_err' = Len(clients) + 1
          /\ pc' = OnConstructorErr
          /\ clients' = IF OnConstructorErr = "err" THEN <<>> ELSE clients
    /\ UNCHANGED <<config, closed, guard, client_map, wrapped, next, status, loop_tx, rxq,
                   sends, ready, relayed, posted, seen, sendlog, events>>

\* entrypoint returns the Err of from_config (`?`); main logs the error chain
\* and calls exit(1).
EntrypointErr ==
    /\ pc = "err"
    /\ pc' = "exit1"
    /\ UNCHANGED <<config, closed, guard, ctor_err, clients, client_map, wrapped, next, status, loop_tx,
                   rxq, sends, ready, relayed, posted, seen, sendlog, events>>

\* The clients vector is complete: build client_map.
MapClients ==
    /\ pc = "build"
    /\ Len(clients) = N
    /\ client_map' = CollectMap(clients)
    /\ pc' = "wire"
    /\ UNCHANGED <<config, closed, guard, ctor_err, clients, wrapped, next, status, loop_tx, rxq,
                   sends, ready, relayed, posted, seen, sendlog, events>>

\* One iteration of clients.drain(..).map(..): drain the streams mapped to the
\* client's id into client.add_stream, then wrap the client in Arc<Mutex<_>>.
AddStreams ==
    /\ pc = "wire"
    /\ wrapped < N
    /\ LET i == wrapped + 1
           k == clients[i].id
       IN  /\ clients' = [clients EXCEPT ![i].outer_tx = @ \o client_map[k]]
           /\ client_map' = [client_map EXCEPT ![k] = <<>>]
    /\ wrapped' = wrapped + 1
    /\ UNCHANGED <<config, closed, guard, ctor_err, pc, next, status, loop_tx, rxq,
                   sends, ready, relayed, posted, seen, sendlog, events>>

\* Ok(PipeFitter { clients }) returned to entrypoint, which calls fitter.run().
CanRun == pc = "wire" /\ wrapped = N

FitterRun ==
    /\ CanRun
    /\ pc' = "run"
    /\ UNCHANGED <<config, closed, guard, ctor_err, clients, client_map, wrapped, next, status, loop_tx, rxq,
                   sends, ready, relayed, posted, seen, sendlog, events>>

-----------------------------------------------------------------------------
(* Messages and platform events *)

\* A native platform event: the author (its login and whether the platform
\* marks it as a bot) and the channel it was posted on.
Authors == {[author |-> BotName, bot |-> TRUE], [author |-> "alice", bot |-> FALSE]}

\* Events arrive on the first configured channel or on a channel that is not configured.
EventChannels(c) == {c.channels[1]} \cup (IF c.kind = "Twitch" THEN {"cx"} ELSE {"99"})

PlatformEvents(c) ==
    {[author |-> a.author, bot |-> a.bot, channel |-> ch] :
        a \in Authors, ch \in EventChannels(c)}

\* msg.channel_id.name(&ctx): the name of a Discord channel id.
ChannelName(ch_id) == "chan" \o ch_id

\* The text of the n-th platform event.
Content(n) == "text" \o ToString(n)

\* Message::new(..) as called by the two ingress duties.
NewMessage(c, ev, e, n) ==
    [client |-> c.kind,
     channel |-> IF c.kind = "Twitch" THEN ev.channel ELSE ChannelName(ev.channel),
     author |-> ev.author,
     content |-> Content(n),
     origin |-> e,
     n |-> n]

\* The format arguments in another order: channel and author exchanged.
DisplaySwapped(m) ==
    "[" \o m.client \o ": " \o m.author \o "] [" \o m.channel \o "] " \o m.content

\* impl Display for Message: "[{}: {}] [{}] {}"
Display(m) ==
    "[" \o m.client \o ": " \o m.channel \o "] [" \o m.author \o "] " \o m.content

\* "Only forward if it's not a bot message."
IsBotNever(c, ev) == FALSE

IsBot(c, ev) ==
    IF c.kind = "Twitch" THEN ev.author = c.name ELSE ev.bot

\* "Only forward if it's coming from the channel we are handling."
HandlesAny(c, ev) == TRUE

Handles(c, ev) == \E i \in 1..Len(c.channels) : c.channels[i] = ev.channel

RECURSIVE SayAll(_, _, _, _)
\* One platform send call of the text of m per channel of chans[i..], in
\* order, skipping the channels of `skip`.
SayAll(chans, i, skip, m) ==
    IF i > Len(chans) THEN <<>>
    ELSE (IF chans[i] \in skip THEN <<>>
          ELSE <<[channel |-> chans[i], text |-> Display(m), msg |-> m, res |-> "ok"]>>)
         \o SayAll(chans, i + 1, skip, m)

\* "Forward message to other connected channels." (if !isolate_channels)
ForwardChannelsAlways(c, ev, m) == SayAll(c.channels, 1, {ev.channel}, m)

ForwardChannels(c, ev, m) ==
    IF ~c.isolate_channels THEN SayAll(c.channels, 1, {ev.channel}, m) ELSE <<>>

\* A channel loop that stops at the first call that returns an error.
PostGoesOnIfOk(res) == res = "ok"

\* if let Err(err) = client.privmsg(..).await { error!(..) }: the error is
\* logged and the loop over the channels goes on.
PostGoesOn(res) == TRUE

RECURSIVE SendToChannels(_, _, _, _)
\* "Send received message to channels." of the egress duties: one platform
\* call of the text of m per channel of chans[i..], in order; the calls to the
\* channels of index in `fails` return an error.
SendToChannels(chans, i, m, fails) ==
    IF i > Len(chans) THEN <<>>
    ELSE LET res == IF i \in fails THEN "err" ELSE "ok"
         IN  <<[channel |-> chans[i], text |-> Display(m), msg |-> m, res |-> res]>>
             \o (IF PostGoesOn(res) THEN SendToChannels(chans, i + 1, m, fails) ELSE <<>>)

-----------------------------------------------------------------------------
(* mpsc channel(100) *)

\* The Receiver of client t is dropped.  A Twitch client keeps it in its struct,
\* which is dropped when the client's task ends.  Discord::run moved it, in the
\* handler, into the serenity client: it is dropped once client.start() has
\* returned and no handler task still holds the handler.
RxClosed(t) ==
    IF clients[t].kind = "Twitch" THEN status[t] \in {"stopped", "failed"}
    ELSE /\ status[t] \in {"stopped", "failed"}
         /\ ready[t] # "looping"
         /\ sends[t] = {}

\* A channel that reserves one slot per Sender on top of its buffer.
FullPerSender(t) ==
    Len(rxq[t]) >= QueueCap + Cardinality({a \in Clients : t \in Range(loop_tx[a])})

\* channel(100): the channel has no capacity left for a send once it holds
\* `buffer` messages, whatever the number of Sender clones.
Full(t) == Len(rxq[t]) >= QueueCap

-----------------------------------------------------------------------------
(* Twitch::run, Discord::run *)

TwitchListensAlways(c) == TRUE

\* if !forward_only { tokio::spawn(internal_message_loop(..)) }
TwitchListens(c) == ~c.forward_only

\* Twitch::run: moves user_config and outer_tx out of the struct and starts
\* external_message_loop and, unless forward_only, internal_message_loop.
TwitchRun(e) ==
    /\ clients[e].kind = "Twitch"
    /\ ~clients[e].taken
    /\ loop_tx' = [loop_tx EXCEPT ![e] = clients[e].outer_tx]
    /\ clients' = [clients EXCEPT ![e].outer_tx = <<>>, ![e].taken = TRUE]
    /\ ready' = [ready EXCEPT ![e] = IF TwitchListens(clients[e]) THEN "looping" ELSE "returned"]

\* Discord::run: moves the handler (with its outer_tx) out of the struct into
\* the serenity client and starts it.
DiscordRun(e) ==
    /\ clients[e].kind = "Discord"
    /\ ~clients[e].taken
    /\ loop_tx' = [loop_tx EXCEPT ![e] = clients[e].outer_tx]
    /\ clients' = [clients EXCEPT ![e].outer_tx = <<>>, ![e].taken = TRUE]
    /\ ready' = ready

\* run may start only on the PipeFitter that from_config returned.
SpawnEarly == pc \in {"wire", "run"}

CanSpawn == pc = "run"

\* An iterator that starts over when it is exhausted.
IterNextCycle(k) == Some((k % Len(clients)) + 1)

\* clients.next() of self.clients.drain(..) after k clients were pulled.
IterNext(k) == IF k < Len(clients) THEN Some(k + 1) ELSE None

\* A guard dropped before the future of run() is awaited.
GuardHolderDropped(t) == 0

\* The holder of the client's Mutex while task t awaits run():
\* client.lock().await.run().await keeps the guard, a temporary of the match
\* scrutinee, until the match ends.
GuardHolder(t) == t

\* One iteration of the loop of PipeFitter::run with clients.next() =
\* Some(client): tokio::spawn of task t, which locks the client's Mutex and
\* calls its run() under the guard, or waits for the Mutex if it is held.
Spawn ==
    /\ CanSpawn
    /\ IterNext(next) # None
    /\ LET c == IterNext(next)[1]
           t == next + 1
       IN  /\ next' = next + 1
           /\ IF guard[c].holder = 0
              THEN /\ guard' = [guard EXCEPT ![c].holder = GuardHolder(t), ![c].locks = @ + 1]
                   /\ status' = [status EXCEPT ![c] = "running"]
                   /\ (TwitchRun(c) \/ DiscordRun(c))
              ELSE /\ guard' = [guard EXCEPT ![c].waiting = @ \cup {t}]
                   /\ UNCHANGED <<status, loop_tx, clients, ready>>
    /\ UNCHANGED <<config, closed, ctor_err, pc, client_map, wrapped, rxq,
                   sends, relayed, posted, seen, sendlog, events>>

\* `None => continue` replaced by a break: block_on returns, run returns
\* Ok(()), entrypoint returns Ok and main exits with 0.
OnNoneBreak == "exit0"

\* None => continue: the loop goes to its next iteration.
OnNone == "run"

\* One iteration of the loop with clients.next() = None.
LoopNone ==
    /\ pc = "run"
    /\ IterNext(next) = None
    /\ pc' = OnNone
    /\ UNCHANGED <<config, closed, ctor_err, guard, clients, client_map, wrapped, next, status,
                   loop_tx, rxq, sends, ready, relayed, posted, seen, sendlog, events>>

DiscordListensAlways(c) == TRUE

\* if !self.forward_only { .. } in DiscordHandler::ready
DiscordListens(c) == ~c.forward_only

\* The gateway's Ready event: serenity runs DiscordHandler::ready in a task of
\* its own, which loops on the rx for ever unless forward_only.
DiscordReady(e) ==
    /\ status[e] = "running"
    /\ clients[e].kind = "Discord"
    /\ ready[e] = "none"
    /\ ready' = [ready EXCEPT ![e] = IF DiscordListens(clients[e]) THEN "looping" ELSE "returned"]
    /\ UNCHANGED <<config, closed, guard, ctor_err, pc, clients, client_map, wrapped, next, status, loop_tx, rxq,
                   sends, relayed, posted, seen, sendlog, events>>

\* An end of task e that unsubscribes e: its handle is removed from the
\* targets of every other client.
TargetsAfterEndUnsubscribe(e) ==
    [a \in DOMAIN loop_tx |-> SelectSeq(loop_tx[a], LAMBDA t : t # e)]

\* The targets of the ingress duties after the task of client e has ended:
\* each duty owns the outer_tx vector that run() moved into it, and nothing
\* in the end of a task reaches the vector of another client.
TargetsAfterEnd(e) == loop_tx

\* A task that lets the error of its client's run() escape: the runtime is
\* torn down and the sibling tasks stop with it.
TaskEndPropagate(e, res) ==
    [a \in DOMAIN status |->
        IF a = e THEN res
        ELSE IF res = "failed" /\ status[a] = "running" THEN "stopped"
        ELSE status[a]]

\* The end of the task spawned for client e, whose run() returned res:
\* match .. { Ok(_) => (), Err(err) => { error!("Stream error: {:?}", err); } }
TaskEnd(e, res) == [status EXCEPT ![e] = res]

\* client.start().await returns: Err(_) on a connection or protocol failure,
\* Ok(()) when the shards shut down.
DiscordEnd(e) ==
    /\ status[e] = "running"
    /\ clients[e].kind = "Discord"
    /\ Cardinality({x \in Clients : closed[x]}) < MaxEnded
    /\ closed' = [closed EXCEPT ![e] = TRUE]
    /\ \E res \in {"stopped", "failed"} : status' = TaskEnd(e, res)
    /\ guard' = [guard EXCEPT ![e].holder = 0]
    /\ loop_tx' = TargetsAfterEnd(e)
    /\ UNCHANGED <<config, ctor_err, pc, clients, client_map, wrapped, next, rxq,
                   sends, ready, relayed, posted, seen, sendlog, events>>

\* run() awaits internal_message_loop before join_send: the loop ends only
\* when every Sender of the client's queue is dropped, and the client's own
\* struct, alive while its task runs, holds one.
AwaitsEgress(c) == TwitchListens(c)

\* The Twitch connection ends: inner_rx.recv() returns None and
\* external_message_loop returns.  run() returns Ok(()) from join_send.await?
\* unless it is still waiting for internal_message_loop.
TwitchEnd(e) ==
    /\ status[e] = "running"
    /\ clients[e].kind = "Twitch"
    /\ ~closed[e]
    /\ sends[e] = {}
    /\ Cardinality({x \in Clients : closed[x]}) < MaxEnded
    /\ closed' = [closed EXCEPT ![e] = TRUE]
    /\ IF AwaitsEgress(clients[e])
       THEN UNCHANGED <<status, guard, loop_tx>>
       ELSE /\ status' = TaskEnd(e, "stopped")
            /\ guard' = [guard EXCEPT ![e].holder = 0]
            /\ loop_tx' = TargetsAfterEnd(e)
    /\ UNCHANGED <<config, ctor_err, pc, clients, client_map, wrapped, next, rxq,
                   sends, ready, relayed, posted, seen, sendlog, events>>

-----------------------------------------------------------------------------
(* Ingress duty *)

\* The fan-out started for message m: the index of the next stream of
\* outer_tx to send to, and whether the pending send has found the queue full.
FanOut(e, m) ==
    IF loop_tx[e] = <<>> THEN {} ELSE {[msg |-> m, k |-> 1, waited |-> FALSE]}

\* The body of the ingress duty up to the fan-out, for event ev read by e as
\* the n-th event: <<platform calls made, fan-outs started>>.
Ingress(e, ev, n) ==
    LET c == clients[e]
        m == NewMessage(c, ev, e, n)
    IN  IF IsBot(c, ev) THEN <<<<>>, {}>>
        ELSE IF ~Handles(c, ev) THEN <<<<>>, {}>>
        ELSE <<ForwardChannels(c, ev, m), FanOut(e, m)>>

\* One iteration of `while let Some(msg) = inner_rx.recv().await` of
\* external_message_loop, up to its fan-out loop.
ExternalMessage(e) ==
    /\ status[e] = "running"
    /\ clients[e].kind = "Twitch"
    /\ ~closed[e]
    /\ sends[e] = {}
    /\ events < MaxEvents
    /\ \E ev \in PlatformEvents(clients[e]) :
          LET n == events + 1
              r == Ingress(e, ev, n)
          IN  /\ seen' = seen \cup {[to |-> e, ev |-> ev, n |-> n]}
              /\ relayed' = [relayed EXCEPT ![e] = @ \o r[1]]
              /\ sends' = [sends EXCEPT ![e] = r[2]]
    /\ events' = events + 1
    /\ UNCHANGED <<config, closed, guard, ctor_err, pc, clients, client_map, wrapped, next, status, loop_tx, rxq,
                   ready, posted, sendlog>>

\* serenity dispatches a MessageCreate event: DiscordHandler::message runs in
\* a task of its own, up to its fan-out loop.
HandlerMessage(e) ==
    /\ status[e] = "running"
    /\ clients[e].kind = "Discord"
    /\ ready[e] # "none"
    /\ events < MaxEvents
    /\ \E ev \in PlatformEvents(clients[e]) :
          LET n == events + 1
              r == Ingress(e, ev, n)
          IN  /\ seen' = seen \cup {[to |-> e, ev |-> ev, n |-> n]}
              /\ relayed' = [relayed EXCEPT ![e] = @ \o r[1]]
              /\ sends' = [sends EXCEPT ![e] = @ \cup r[2]]
    /\ events' = events + 1
    /\ UNCHANGED <<config, closed, guard, ctor_err, pc, clients, client_map, wrapped, next, status, loop_tx, rxq,
                   ready, posted, sendlog>>

\* The fan-outs of e after fan-out s has finished the send to its k-th stream
\* with result res: `for stream in &outer_tx` goes on to the next stream.
AfterSendStopOnErr(e, s, res) ==
    IF s.k >= Len(loop_tx[e]) \/ res = "err" THEN sends[e] \ {s}
    ELSE (sends[e] \ {s}) \cup {[msg |-> s.msg, k |-> s.k + 1, waited |-> FALSE]}

AfterSend(e, s, res) ==
    IF s.k >= Len(loop_tx[e]) THEN sends[e] \ {s}
    ELSE (sends[e] \ {s}) \cup {[msg |-> s.msg, k |-> s.k + 1, waited |-> FALSE]}

SendRecord(e, s, res) ==
    [from |-> e, to |-> loop_tx[e][s.k], k |-> s.k, n |-> s.msg.n, res |-> res,
     waited |-> s.waited]

\* What a send does when it finds the queue full: "wait" parks the task until
\* there is room.
OnFullDrop == "drop"

OnFull == "wait"

\* stream.send(new_msg.clone()).await returns Ok(()): the message is queued.
SendOk(e) ==
    \E s \in sends[e] :
        LET t == loop_tx[e][s.k]
        IN  /\ ~RxClosed(t)
            /\ ~Full(t)
            /\ rxq' = [rxq EXCEPT ![t] = Append(@, s.msg)]
            /\ sends' = [sends EXCEPT ![e] = AfterSend(e, s, "ok")]
            /\ sendlog' = sendlog \cup {SendRecord(e, s, "ok")}
            /\ UNCHANGED <<config, closed, guard, ctor_err, pc, clients, client_map, wrapped, next, status,
                           loop_tx, ready, relayed, posted, seen, events>>

\* stream.send(..).await finds no capacity: the task is parked on the channel.
SendFull(e) ==
    \E s \in sends[e] :
        LET t == loop_tx[e][s.k]
        IN  /\ ~RxClosed(t)
            /\ Full(t)
            /\ ~s.waited
            /\ IF OnFull = "wait"
               THEN /\ sends' = [sends EXCEPT ![e] = (@ \ {s}) \cup {[s EXCEPT !.waited = TRUE]}]
                    /\ sendlog' = sendlog
               ELSE /\ sends' = [sends EXCEPT ![e] = AfterSend(e, s, "drop")]
                    /\ sendlog' = sendlog \cup {SendRecord(e, s, "drop")}
            /\ UNCHANGED <<config, closed, guard, ctor_err, pc, clients, client_map, wrapped, next, status,
                           loop_tx, rxq, ready, relayed, posted, seen, events>>

\* stream.send(..).await returns Err(_): the receiver is gone; the error is logged.
SendErr(e) ==
    \E s \in sends[e] :
        LET t == loop_tx[e][s.k]
        IN  /\ RxClosed(t)
            /\ sends' = [sends EXCEPT ![e] = AfterSend(e, s, "err")]
            /\ sendlog' = sendlog \cup {SendRecord(e, s, "err")}
            /\ UNCHANGED <<config, closed, guard, ctor_err, pc, clients, client_map, wrapped, next, status,
                           loop_tx, rxq, ready, relayed, posted, seen, events>>

-----------------------------------------------------------------------------
(* Egress duty *)

RECURSIVE PostErrsFrom(_)
\* The number of egress platform calls of the clients e..N that returned an error.
PostErrsFrom(e) ==
    IF e > N THEN 0
    ELSE Len(SelectSeq(posted[e], LAMBDA p : p.res = "err")) + PostErrsFrom(e + 1)

\* The sets of channels (by index) whose platform call fails in an egress
\* iteration in which some call fails.
PostFailures(c) ==
    {F \in SUBSET (1..Len(c.channels)) :
        F # {} /\ Cardinality(F) + PostErrsFrom(1) <= MaxPostErrs}

\* A receive loop that returns at the first failed platform call.
EgressAfterStop(p) == IF \E i \in 1..Len(p) : p[i].res = "err" THEN "returned" ELSE "looping"

\* The receive loop after an iteration that made the platform calls p:
\* `while let Some(msg) = locked_rx.recv().await` waits for the next Message.
EgressAfter(p) == "looping"

\* A receive loop that also relays the dequeued Message m to the outbound
\* targets of client e.
SendsAfterEgressRelay(e, m) == sends[e] \cup FanOut(e, m)

\* The fan-outs of client e after an iteration of its receive loop for the
\* Message m: the body of the loop makes platform calls only and sends to no
\* stream.
SendsAfterEgress(e, m) == sends[e]

\* One iteration of a receive loop of client e: the head of the queue is
\* dequeued and posted to the client's channels, the calls of `fails` failing.
Egress(e, fails) ==
    /\ ready[e] = "looping"
    /\ rxq[e] # <<>>
    /\ rxq' = [rxq EXCEPT ![e] = Tail(@)]
    /\ LET p == SendToChannels(clients[e].channels, 1, Head(rxq[e]), fails)
       IN  /\ posted' = [posted EXCEPT ![e] = @ \o p]
           /\ ready' = [ready EXCEPT ![e] = EgressAfter(p)]
    /\ sends' = [sends EXCEPT ![e] = SendsAfterEgress(e, Head(rxq[e]))]
    /\ UNCHANGED <<config, closed, guard, ctor_err, pc, clients, client_map, wrapped, next,
                   status, loop_tx, relayed, seen, sendlog, events>>

\* One iteration of `while let Some(msg) = locked_rx.recv().await` of
\* internal_message_loop, every client.privmsg returning Ok.
InternalMessage(e) ==
    /\ ready[e] = "looping"
    /\ clients[e].kind = "Twitch"
    /\ Egress(e, {})

\* One iteration of the same loop in DiscordHandler::ready, every ch_id.say
\* returning Ok.
ReadyMessage(e) ==
    /\ ready[e] = "looping"
    /\ clients[e].kind = "Discord"
    /\ Egress(e, {})

\* An iteration of internal_message_loop in which client.privmsg returns Err
\* for some channels.
InternalMessageErr(e) ==
    /\ ready[e] = "looping"
    /\ clients[e].kind = "Twitch"
    /\ \E F \in PostFailures(clients[e]) : Egress(e, F)

\* An iteration of the loop of DiscordHandler::ready in which ch_id.say
\* returns Err for some channels.
ReadyMessageErr(e) ==
    /\ ready[e] = "looping"
    /\ clients[e].kind = "Discord"
    /\ \E F \in PostFailures(clients[e]) : Egress(e, F)

-----------------------------------------------------------------------------
Next ==
    \/ BuildClient
    \/ MapClients
    \/ AddStreams
    \/ FitterRun
    \/ Spawn
    \/ LoopNone
    \/ \E e \in Clients : DiscordReady(e)
    \/ \E e \in Clients : DiscordEnd(e)
    \/ \E e \in Clients : TwitchEnd(e)
    \/ \E e \in Clients : ExternalMessage(e)
    \/ \E e \in Clients : HandlerMessage(e)
    \/ \E e \in Clients : SendOk(e)
    \/ \E e \in Clients : SendFull(e)
    \/ \E e \in Clients : SendErr(e)
    \/ \E e \in Clients : InternalMessage(e)
    \/ \E e \in Clients : ReadyMessage(e)

Spec == Init /\ [][Next]_vars

\* from_config alone, over every configuration file of the bound and with ids
\* that may collide.
InitWire ==
    /\ config \in UNION {[1..n -> ClientConfig] : n \in 1..MaxClients}
    /\ Start

NextWire ==
    \/ BuildClientAnyId
    \/ MapClients
    \/ AddStreams
    \/ FitterRun

SpecWire == InitWire /\ [][NextWire]_vars

\* Startup with constructors that may return Err, up to the spawning of the
\* client tasks.
NextStartup ==
    \/ BuildClientResult
    \/ EntrypointErr
    \/ MapClients
    \/ AddStreams
    \/ FitterRun
    \/ Spawn

SpecStartup == InitWire /\ [][NextStartup]_vars

\* The fabric with platform calls of the egress duties that may fail.
NextEgress ==
    \/ Next
    \/ \E e \in Clients : InternalMessageErr(e)
    \/ \E e \in Clients : ReadyMessageErr(e)

InitEgress ==
    /\ config \in {f \in PipeFitterConfig : Len(f) < MaxClients}
    /\ Start

SpecEgress == InitEgress /\ [][NextEgress]_vars

\* The main thread keeps iterating the loop of PipeFitter::run, a connected
\* gateway session delivers its Ready event, and the tokio runtime polls every
\* task that can make progress: a send that has room (or whose receiver is
\* gone) returns, and a receive loop with a queued Message takes it.
Fairness ==
    /\ WF_vars(Spawn)
    /\ \A e \in 1..MaxClients :
        /\ WF_vars(e \in Clients /\ DiscordReady(e))
        /\ WF_vars(e \in Clients /\ SendOk(e))
        /\ WF_vars(e \in Clients /\ SendErr(e))
        /\ WF_vars(e \in Clients /\ InternalMessage(e))
        /\ WF_vars(e \in Clients /\ ReadyMessage(e))

\* The fabrics of the fair behaviours: isolate_channels, which only governs the
\* rebroadcast of the ingress to the client's own channels, keeps its default.
InitFair ==
    /\ config \in {f \in PipeFitterConfig :
                      \A i \in 1..Len(f) : f[i].isolate_channels = None}
    /\ Start

FairSpec == InitFair /\ [][Next]_vars /\ Fairness

-----------------------------------------------------------------------------
(* Properties *)

DistinctIds ==
    \A i, j \in 1..Len(clients) : clients[i].id = clients[j].id => i = j

\* Every trace of the n-th platform event in the fabric: a Message built from
\* it that is being sent, queued, or was handed to a platform or a stream.
Traces(n) ==
    \/ \E e \in Clients : \E s \in sends[e] : s.msg.n = n
    \/ \E e \in Clients : \E i \in 1..Len(rxq[e]) : rxq[e][i].n = n
    \/ \E e \in Clients : \E i \in 1..Len(relayed[e]) : relayed[e][i].msg.n = n
    \/ \E e \in Clients : \E i \in 1..Len(posted[e]) : posted[e][i].msg.n = n
    \/ \E l \in sendlog : l.n = n

\* C1 (full-mesh invariant): when from_config has returned the PipeFitter and
\* the generated ids are pairwise distinct, every client's outer_tx holds
\* exactly N-1 handles, one for each other client's queue, and none for its own.
FullMesh ==
    (pc = "run" /\ DistinctIds) =>
        \A i \in Clients :
            /\ Len(clients[i].outer_tx) = N - 1
            /\ Range(clients[i].outer_tx) = Clients \ {i}

FullMeshWitness ==
    /\ pc = "run"
    /\ DistinctIds
    /\ N = MaxClients
    /\ \A i \in Clients : Len(clients[i].outer_tx) = N - 1

\* C2 (wiring precedes running): whenever the run() of some client has
\* started, from_config has finished every add_stream call, so the outer_tx a
\* client runs with, and the outer_tx of every client still to start, is complete.
WiringPrecedesRunning ==
    (\E e \in Clients : status[e] # "none") =>
        /\ pc = "run"
        /\ wrapped = N
        /\ \A i \in Clients :
              Range(IF status[i] = "none" THEN clients[i].outer_tx ELSE loop_tx[i])
                  = Clients \ {i}

WiringPrecedesRunningWitness ==
    \E e \in Clients :
        /\ N = MaxClients
        /\ \E s \in sends[e] : s.k = 1
        /\ sendlog = {}
        /\ \E i \in Clients : status[i] = "none"

\* The platform event r was written by the receiving client's own bot identity.
OwnEvent(r) == r.ev.author = clients[r.to].name

\* The platform event r came from one of the receiving client's configured channels.
OnConfiguredChannel(r) == r.ev.channel \in Range(clients[r.to].channels)

\* C3 (loop prevention): a platform event written by the receiving client's
\* own bot identity leaves no trace: no Message is built from it, none is
\* posted to the client's channels and none is sent to any stream.
LoopPrevention ==
    \A r \in seen : OwnEvent(r) => ~Traces(r.n)

LoopPreventionWitness ==
    \E r \in seen :
        /\ OwnEvent(r)
        /\ OnConfiguredChannel(r)
        /\ loop_tx[r.to] # <<>>
        /\ events = MaxEvents

\* C4 (no self-loop): a Message built by client A's ingress is never sent to
\* or queued on A's own queue, and A's egress never posts it to A's platform.
NoSelfLoop ==
    /\ \A l \in sendlog : l.to # l.from
    /\ \A e \in Clients :
          /\ \A s \in sends[e] : loop_tx[e][s.k] # e
          /\ \A i \in 1..Len(rxq[e]) : rxq[e][i].origin # e
          /\ \A i \in 1..Len(posted[e]) : posted[e][i].msg.origin # e

NoSelfLoopWitness ==
    \E a, b \in Clients :
        /\ a # b
        /\ \E i \in 1..Len(posted[b]) : posted[b][i].msg.origin = a
        /\ posted[a] = <<>>
        /\ events = MaxEvents

\* C5 (channel filtering): a platform event from a channel that is not in the
\* receiving client's channel list leaves no trace: no Message, no rebroadcast
\* to the client's channels, no send to any stream.
ChannelFiltering ==
    \A r \in seen : ~OnConfiguredChannel(r) => ~Traces(r.n)

ChannelFilteringWitness ==
    \E r \in seen :
        /\ ~OnConfiguredChannel(r)
        /\ ~OwnEvent(r)
        /\ loop_tx[r.to] # <<>>
        /\ events = MaxEvents

\* The platform event r passes both ingress filters.
Accepted(r) == ~OwnEvent(r) /\ ~r.ev.bot /\ OnConfiguredChannel(r)

\* The k-th send of the fan-out of the n-th event by client e was made.
Attempted(e, n, k) ==
    \E l \in sendlog : l.from = e /\ l.n = n /\ l.k = k /\ l.to = loop_tx[e][k]

\* The fan-out of the n-th event by client e has not yet passed its k-th stream.
Pending(e, n, k) == \E s \in sends[e] : s.msg.n = n /\ s.k <= k

\* The fan-out of the accepted event r covers every handle of outer_tx: each
\* send was made, or the fan-out has not yet passed it.
FannedOut(r) ==
    \A k \in 1..Len(loop_tx[r.to]) : Attempted(r.to, r.n, k) \/ Pending(r.to, r.n, k)

\* C6 (isolate_channels): a client with isolate_channels set makes no platform
\* call from its ingress (an accepted event is posted to none of its own
\* channels), and its accepted events are sent to every handle of outer_tx,
\* as are the accepted events of a client without the flag.
IsolateChannels ==
    /\ \A e \in 1..Len(clients) : clients[e].isolate_channels => relayed[e] = <<>>
    /\ \A r \in seen : Accepted(r) => FannedOut(r)

IsolateChannelsWitness ==
    \E r \in seen :
        /\ clients[r.to].isolate_channels
        /\ Accepted(r)
        /\ Len(loop_tx[r.to]) = MaxClients - 1
        /\ sends[r.to] = {}
        /\ \A k \in 1..Len(loop_tx[r.to]) :
              \E l \in sendlog : l.from = r.to /\ l.n = r.n /\ l.k = k /\ l.res = "ok"

\* C7 (forward_only): a client with forward_only set never runs the egress
\* loop and posts no Message of its queue to its channels, while its accepted
\* events are still sent to every handle of outer_tx.
ForwardOnly ==
    \A e \in 1..Len(clients) :
        clients[e].forward_only =>
            /\ ready[e] # "looping"
            /\ posted[e] = <<>>
            /\ \A r \in seen : (r.to = e /\ Accepted(r)) => FannedOut(r)

ForwardOnlyWitness ==
    \E e \in 1..Len(clients) :
        /\ clients[e].forward_only
        /\ rxq[e] # <<>>
        /\ sends[e] = {}
        /\ \E l \in sendlog : l.from = e /\ l.res = "ok"

\* C8 (partial-failure tolerance): after a send of a Message to the k-th
\* stream returned an error, every later stream of the same fan-out is still
\* attempted, and once the fan-out is over the ingress takes the next
\* platform event: it can read one, or it is already fanning out a later one.
PartialFailure ==
    \A l \in sendlog :
        l.res = "err" =>
            /\ \A k \in (l.k + 1)..Len(loop_tx[l.from]) :
                  Attempted(l.from, l.n, k) \/ Pending(l.from, l.n, k)
            /\ (/\ status[l.from] = "running"
                /\ ~closed[l.from]
                /\ events < MaxEvents
                /\ ~Pending(l.from, l.n, Len(loop_tx[l.from])))
               => \/ ENABLED ExternalMessage(l.from)
                  \/ ENABLED HandlerMessage(l.from)
                  \/ \E s \in sends[l.from] : s.msg.n > l.n

PartialFailureWitness ==
    \E l, l2 \in sendlog :
        /\ l.res = "err"
        /\ l2.from = l.from /\ l2.n = l.n /\ l2.k > l.k /\ l2.res = "ok"
        /\ \E r \in seen : r.to = l.from /\ r.n > l.n /\ Accepted(r)

\* The send s of client e is still in flight after the step.
StillPending(e, s) == \E s2 \in sends'[e] : s2.msg = s.msg /\ s2.k = s.k

\* A send to a live queue that is at capacity stays in flight (it is neither
\* dropped nor queued beyond the capacity), and a send that was parked on a
\* full queue ends only by queueing its Message once an element was dequeued
\* (or with an error when the receiver is gone).
BackpressureStep ==
    \A e \in Clients : \A s \in sends[e] :
        LET t == loop_tx[e][s.k]
        IN  /\ (Full(t) /\ ~RxClosed(t)) => StillPending(e, s)
            /\ (s.waited /\ ~StillPending(e, s)) =>
                  \/ /\ ~Full(t)
                     /\ rxq'[t] = Append(rxq[t], s.msg)
                     /\ Len(rxq'[t]) <= QueueCap
                  \/ RxClosed(t)

\* Some send is parked on the full queue of a client whose egress loop runs.
Parked ==
    \E e \in Clients : \E s \in sends[e] :
        s.waited /\ ready[loop_tx[e][s.k]] = "looping"

\* C9 (backpressure): a send to a peer's queue that is at capacity blocks and
\* its Message is not dropped; once the consumer dequeues, the blocked send
\* completes by queueing the Message, so no send stays parked for ever on the
\* queue of a client whose egress loop runs.
Backpressure ==
    /\ [][BackpressureStep]_vars
    /\ []<>(~Parked)

BackpressureWitness ==
    \E l \in sendlog :
        /\ l.waited
        /\ l.res = "ok"
        /\ \E i \in 1..Len(rxq[l.to]) : rxq[l.to][i].n = l.n

\* C10 (per-source, per-subscriber FIFO): the Messages of one origin leave a
\* peer's queue in the order in which the origin's ingress read their events.
PerSourceFIFO ==
    \A b \in Clients :
        /\ \A i, j \in 1..Len(posted[b]) :
              (i < j /\ posted[b][i].msg.origin = posted[b][j].msg.origin)
                  => posted[b][i].msg.n <= posted[b][j].msg.n
        /\ \A i, j \in 1..Len(rxq[b]) :
              (i < j /\ rxq[b][i].origin = rxq[b][j].origin) => rxq[b][i].n < rxq[b][j].n
        /\ \A i \in 1..Len(posted[b]) : \A j \in 1..Len(rxq[b]) :
              posted[b][i].msg.origin = rxq[b][j].origin => posted[b][i].msg.n < rxq[b][j].n

\* The same order for the Messages that a Twitch client originated: its
\* external_message_loop finishes the fan-out of one event before it reads the next.
TwitchSourceFIFO ==
    \A b \in Clients :
        /\ \A i, j \in 1..Len(posted[b]) :
              (/\ i < j
               /\ posted[b][i].msg.origin = posted[b][j].msg.origin
               /\ posted[b][i].msg.client = "Twitch")
                  => posted[b][i].msg.n <= posted[b][j].msg.n
        /\ \A i \in 1..Len(posted[b]) : \A j \in 1..Len(rxq[b]) :
              (posted[b][i].msg.origin = rxq[b][j].origin /\ rxq[b][j].client = "Twitch")
                  => posted[b][i].msg.n < rxq[b][j].n

\* A step in which the run() of client e returns an error.
Fails(e) == status[e] = "running" /\ status'[e] = "failed"

\* The step that fails e changes nothing of its siblings: the main thread goes
\* on, every other task keeps its state, its targets, its queue and its sends.
FailureIsolationStep ==
    \A e \in Clients :
        Fails(e) =>
            /\ pc' = pc
            /\ \A a \in Clients \ {e} :
                  /\ status'[a] = status[a]
                  /\ ready'[a] = ready[a]
                  /\ loop_tx'[a] = loop_tx[a]
                  /\ rxq'[a] = rxq[a]
                  /\ sends'[a] = sends[a]

\* A running sibling of a failed client still takes platform events.
SiblingsRelay ==
    \A e, a \in Clients :
        (/\ status[e] = "failed"
         /\ a # e
         /\ status[a] = "running"
         /\ ~closed[a]
         /\ events < MaxEvents)
        => \/ ENABLED ExternalMessage(a)
           \/ ENABLED HandlerMessage(a)
           \/ sends[a] # {}
           \/ ready[a] = "none"

\* C11 (failure isolation): when the run() of one client returns an error, the
\* error ends in that client's task; no sibling task is stopped, and the
\* running siblings keep taking events and relaying them to one another.
FailureIsolation ==
    /\ [][FailureIsolationStep]_vars
    /\ []SiblingsRelay

FailureIsolationWitness ==
    \E e, a, b \in Clients :
        /\ a # e /\ b # e /\ a # b
        /\ status[e] = "failed"
        /\ status[a] = "running" /\ status[b] = "running"
        /\ \E l \in sendlog :
              /\ l.from = a /\ l.to = e /\ l.res = "err"
              /\ \E i \in 1..Len(posted[b]) :
                    posted[b][i].msg.origin = a /\ posted[b][i].msg.n = l.n

\* C12 (fail-fast startup): if the constructor of one config entry returns an
\* error, from_config returns it: no PipeFitter is produced (no client is kept,
\* wired or wrapped), no client's run() is ever started, and the process ends
\* with exit code 1 and no other.
FailFast ==
    /\ [](ctor_err # 0 =>
            /\ pc \in {"err", "exit1"}
            /\ clients = <<>> /\ client_map = <<>> /\ wrapped = 0
            /\ next = 0
            /\ \A e \in Clients : status[e] = "none")
    /\ [][pc = "err" => pc' = "exit1"]_vars
    /\ [][pc = "exit1" => UNCHANGED vars]_vars
    /\ [](pc = "err" => ENABLED EntrypointErr)

FailFastWitness ==
    /\ ctor_err = MaxClients
    /\ N = MaxClients
    /\ pc = "exit1"

\* The Message of the accepted event r is posted, as its rendered text, on
\* every configured channel of client b.
Delivered(r, b) ==
    \A i \in 1..Len(clients[b].channels) :
        \E j \in 1..Len(posted[b]) :
            /\ posted[b][j].channel = clients[b].channels[i]
            /\ posted[b][j].msg.origin = r.to
            /\ posted[b][j].msg.n = r.n
            /\ posted[b][j].text = Display(posted[b][j].msg)

\* Client b owes the posting of the accepted event r: b is another client that
\* is running and not forward_only, and no send has returned an error.
Owed(r, b) ==
    /\ Accepted(r)
    /\ b # r.to
    /\ status[b] = "running"
    /\ ~clients[b].forward_only
    /\ \A l \in sendlog : l.res # "err"

Undelivered == \E r \in seen : \E b \in Clients : Owed(r, b) /\ ~Delivered(r, b)

\* C13 (end-to-end relay): under fair scheduling and without send errors,
\* every platform event accepted by a client's ingress is eventually posted,
\* as the rendered text of its Message, on every configured channel of every
\* other client that is running and not forward_only (no accepted event stays
\* undelivered for ever).
EndToEndRelay == []<>(~Undelivered)

\* The same with no forward_only client in the fabric, whose queue nobody drains.
RelayWithoutForwardOnly ==
    (\A i \in 1..Len(config) : config[i].forward_only = None) => []<>(~Undelivered)

\* The platform calls made by the ingress rebroadcasts and by the egress duties.
PlatformCalls ==
    UNION {Range(relayed[e]) \cup Range(posted[e]) : e \in Clients}

\* The source, channel, author and content of the Message built from event r.
FieldsOf(r) ==
    [source |-> clients[r.to].kind,
     channel |-> IF clients[r.to].kind = "Twitch" THEN r.ev.channel
                 ELSE ChannelName(r.ev.channel),
     author |-> r.ev.author,
     content |-> Content(r.n)]

\* C14 (message rendering): the text of every platform call, of the ingress
\* rebroadcast and of the egress duty alike, is
\* "[" + source + ": " + channel + "] [" + author + "] " + content
\* of the Message it posts, whose fields are those of the event it was built from.
MessageRendering ==
    \A p \in PlatformCalls :
        /\ p.text = "[" \o p.msg.client \o ": " \o p.msg.channel \o "] ["
                        \o p.msg.author \o "] " \o p.msg.content
        /\ \E r \in seen :
              /\ r.n = p.msg.n
              /\ r.to = p.msg.origin
              /\ p.text = "[" \o FieldsOf(r).source \o ": " \o FieldsOf(r).channel \o "] ["
                              \o FieldsOf(r).author \o "] " \o FieldsOf(r).content

MessageRenderingWitness ==
    \E a, b \in Clients :
        /\ a # b
        /\ \E i \in 1..Len(relayed[a]) : \E j \in 1..Len(posted[b]) :
              /\ relayed[a][i].msg.n = posted[b][j].msg.n
              /\ relayed[a][i].text = posted[b][j].text
              /\ relayed[a][i].text = "[Discord: chan11] [alice] text1"

\* The run() of every client was started.
AllStarted == \A c \in Clients : status[c] # "none"

\* One task per client: the client's Mutex was locked as often as its run()
\* was started, at most once, and no second task waits for it.
StartedOnce ==
    \A c \in Clients :
        /\ guard[c].locks = (IF status[c] = "none" THEN 0 ELSE 1)
        /\ guard[c].waiting = {}
        /\ clients[c].taken <=> status[c] # "none"

\* A client enters Running only from not started, by the spawn of its task, and
\* an ended client keeps its state.
LifecycleStep ==
    \A c \in Clients :
        /\ (status'[c] = "running" /\ status[c] # "running")
              => (status[c] = "none" /\ next = c - 1 /\ next' = c)
        /\ status[c] \in {"stopped", "failed"} => status'[c] = status[c]
        /\ status[c] # "none" => status'[c] # "none"

\* C15 (endpoint lifecycle): PipeFitter::run starts the run() of each wired
\* client exactly once (every client eventually enters Running, none is
\* started a second time), and a client that is Stopped or Failed never
\* returns to Running.
Lifecycle ==
    /\ [](pc = "run" => StartedOnce)
    /\ [][LifecycleStep]_vars
    /\ (pc = "run" ~> AllStarted)

LifecycleWitness ==
    /\ N = MaxClients
    /\ AllStarted
    /\ StartedOnce
    /\ \E c \in Clients : status[c] = "failed"
    /\ events = MaxEvents
    /\ \A c \in Clients : sends[c] = {} /\ rxq[c] = <<>>

\* Every client was pulled from the iterator: clients.next() returns None.
Exhausted == pc = "run" /\ next = Len(clients)

\* An iteration of the exhausted loop spawns nothing and leaves the loop running.
NeverReturnsStep ==
    Exhausted =>
        /\ pc' = "run"
        /\ next' = next
        /\ \A c \in Clients :
              /\ guard'[c].locks = guard[c].locks
              /\ guard'[c].waiting = guard[c].waiting
              /\ status'[c] # "running" \/ status[c] = "running"

\* C16 (run never returns): once the last client is spawned the loop of
\* PipeFitter::run iterates for ever and spawns no further task; run never
\* returns Ok(()), so exit code 0 is never reached, also when every client
\* task has ended.
NeverReturns ==
    /\ [](pc # "exit0")
    /\ [][NeverReturnsStep]_vars
    /\ [](Exhausted => ENABLED LoopNone)

NeverReturnsWitness ==
    /\ Exhausted
    /\ \A c \in Clients : status[c] \in {"stopped", "failed"}

\* The platform connection of some client has ended and its run() has not returned.
Lingering == \E e \in Clients : closed[e] /\ status[e] = "running"

\* C17 (termination on connection end): when the platform connection of a
\* client ends or errors, its run() eventually returns and the client reaches
\* Stopped or Failed, whether it is forward_only or not and while its peers
\* hold its tx (no client lingers for ever in Running with its connection ended).
TerminatesOnConnectionEnd == []<>(~Lingering)

\* The same for the clients that run no egress loop.
ForwardOnlyTerminates ==
    \A e \in Clients : (closed[e] /\ ~AwaitsEgress(clients[e])) => status[e] # "running"

\* posted[e] is made of one block per dequeued Message: one platform call for
\* each configured channel of e, in order, all with that Message.
PostedInBlocks(e) ==
    LET chans == clients[e].channels
        L == Len(chans)
    IN  /\ Len(posted[e]) % L = 0
        /\ \A j \in 1..Len(posted[e]) :
              /\ posted[e][j].channel = chans[((j - 1) % L) + 1]
              /\ posted[e][j].msg = posted[e][j - ((j - 1) % L)].msg

\* A step that dequeues a Message of client e posts it: a block of
\* Len(channels) calls with that Message is appended, and the loop goes on.
EgressStep ==
    \A e \in Clients :
        /\ (rxq[e] # <<>> /\ rxq'[e] = Tail(rxq[e]) /\ Len(rxq'[e]) < Len(rxq[e])) =>
              /\ Len(posted'[e]) = Len(posted[e]) + Len(clients[e].channels)
              /\ posted'[e][Len(posted'[e])].msg = Head(rxq[e])
              /\ SubSeq(posted'[e], 1, Len(posted[e])) = posted[e]
        /\ ready[e] = "looping" => ready'[e] = "looping"

\* C18 (egress duty): a client with forward_only = false posts every Message
\* it dequeues once to each of its configured channels; a failed post to one
\* channel neither skips the remaining channels nor stops the dequeue loop,
\* which never ends while the queue is open.
EgressDuty ==
    /\ [](\A e \in 1..Len(clients) : ~clients[e].forward_only => PostedInBlocks(e))
    /\ [][EgressStep]_vars
    /\ [](\A e \in 1..Len(clients) :
            (status[e] # "none" /\ clients[e].kind = "Twitch" /\ ~clients[e].forward_only)
                => ready[e] = "looping")

EgressDutyWitness ==
    \E e \in 1..Len(clients) :
        LET L == Len(clients[e].channels)
        IN  /\ ~clients[e].forward_only
            /\ Len(posted[e]) = 2 * L
            /\ posted[e][1].res = "err"
            /\ posted[e][2].res = "ok"
            /\ posted[e][2].msg = posted[e][1].msg
            /\ posted[e][L + 1].msg # posted[e][1].msg

\* The outbound targets client e uses: the outer_tx of its struct until its
\* run() moves the vector into the ingress duty.
Targets(e) == IF status[e] = "none" THEN clients[e].outer_tx ELSE loop_tx[e]

\* A step in which the task of client e ends.
Ends(e) == status[e] = "running" /\ status'[e] \in {"stopped", "failed"}

StaticTopologyStep ==
    pc = "run" =>
        /\ \A e \in Clients : Targets(e)' = Targets(e)
        /\ \A e \in Clients :
              Ends(e) => \A a \in Clients \ {e} :
                            /\ rxq'[a] = rxq[a]
                            /\ RxClosed(a)' = RxClosed(a)

\* C19 (static topology): once PipeFitter::run has started, the outbound
\* targets of every client stay the same; the stop or failure of one client
\* leaves the target list and the queue of every other client unchanged.
StaticTopology ==
    /\ [][StaticTopologyStep]_vars
    /\ [](pc = "run" => \A e \in Clients : Range(Targets(e)) = Clients \ {e})

StaticTopologyWitness ==
    \E e, a \in Clients :
        /\ a # e
        /\ status[e] \in {"stopped", "failed"}
        /\ e \in Range(Targets(a))
        /\ rxq[a] # <<>>
        /\ \E l \in sendlog : l.from = a /\ l.to = e /\ l.res = "err"

\* The Mutex of client c is taken only by the spawn of the task of c, and
\* released only when that task ends.
ExclusiveOwnershipStep ==
    \A c \in Clients :
        /\ (guard[c].holder = 0 /\ guard'[c].holder # 0)
              => (status[c] = "none" /\ status'[c] = "running" /\ next' = c)
        /\ (guard[c].holder # 0 /\ guard'[c].holder # guard[c].holder)
              => (guard'[c].holder = 0 /\ Ends(c))

\* C20 (exclusive ownership): the Mutex of every client is locked exactly
\* once, by the task spawned for that client, and held for the whole of its
\* run(); no other task ever holds it or waits for it.
ExclusiveOwnership ==
    /\ [](\A c \in Clients :
            /\ guard[c].waiting = {}
            /\ guard[c].holder \in {0, c}
            /\ guard[c].locks = (IF status[c] = "none" THEN 0 ELSE 1)
            /\ guard[c].holder = c <=> status[c] = "running")
    /\ [][ExclusiveOwnershipStep]_vars

ExclusiveOwnershipWitness ==
    /\ N = MaxClients
    /\ \E c \in Clients :
          /\ status[c] \in {"stopped", "failed"}
          /\ guard[c].holder = 0
          /\ guard[c].locks = 1
    /\ \E c \in Clients : guard[c].holder = c /\ sends[c] # {}

\* Some peer's send is parked on the queue of t, which is at capacity with a
\* Message of another peer.
RacedForRoom(t) ==
    \E a, b \in Clients :
        /\ a # b
        /\ \E s \in sends[b] : loop_tx[b][s.k] = t /\ s.waited
        /\ \E i \in 1..Len(rxq[t]) : rxq[t][i].origin = a

\* C21 (bounded buffering): the queue of every client holds at most the
\* capacity of its channel, also while several peers send into it at once.
BoundedBuffering ==
    \A t \in Clients : Len(rxq[t]) <= QueueCap

BoundedBufferingWitness ==
    \E t \in Clients :
        /\ Len(rxq[t]) = QueueCap
        /\ RacedForRoom(t)

\* The ingress of a running client has a send in flight to the queue of a
\* running peer.
SendingToRunning ==
    \E e \in Clients : \E s \in sends[e] :
        status[e] = "running" /\ status[loop_tx[e][s.k]] = "running"

\* C22 (ingress progress): under fair scheduling, whatever the forward_only
\* flags of its running peers, no send of a client's fan-out to the queue of a
\* running peer stays in flight for ever: every fan-out completes and the
\* ingress goes on to the next platform event.
IngressProgress == []<>(~SendingToRunning)

\* The same with no forward_only client in the fabric.
ProgressWithoutForwardOnly ==
    (\A i \in 1..Len(config) : config[i].forward_only = None) => []<>(~SendingToRunning)

\* The Message m was built by the ingress of client m.origin from a platform
\* event that the client accepted.
FromPlatformEvent(m) ==
    \E r \in seen :
        /\ r.to = m.origin
        /\ r.n = m.n
        /\ Accepted(r)
        /\ m = NewMessage(clients[r.to], r.ev, r.to, r.n)

\* A step that dequeues a Message of client e starts no send, makes no send
\* return, queues nothing and makes no call of an ingress: it only appends
\* platform calls on the channels of e, with that Message, to posted[e].
SingleHopStep ==
    \A e \in Clients :
        (rxq[e] # <<>> /\ rxq'[e] = Tail(rxq[e])) =>
            /\ sends' = sends
            /\ sendlog' = sendlog
            /\ relayed' = relayed
            /\ \A a \in Clients \ {e} : rxq'[a] = rxq[a] /\ posted'[a] = posted[a]
            /\ \A j \in (Len(posted[e]) + 1)..Len(posted'[e]) :
                  /\ posted'[e][j].msg = Head(rxq[e])
                  /\ posted'[e][j].channel \in Range(clients[e].channels)

\* C23 (single-hop relay): a Message dequeued by a client's egress is posted
\* only to that client's own channels and sent to no outbound target; every
\* Message that is being sent is sent by the client whose ingress built it,
\* and every queued Message was built by the ingress of another client from a
\* platform event and sent by that client.
SingleHop ==
    /\ [][SingleHopStep]_vars
    /\ [](\A e \in Clients :
            /\ \A s \in sends[e] : s.msg.origin = e /\ FromPlatformEvent(s.msg)
            /\ \A i \in 1..Len(rxq[e]) :
                  /\ rxq[e][i].origin # e
                  /\ FromPlatformEvent(rxq[e][i])
                  /\ \E l \in sendlog :
                        /\ l.from = rxq[e][i].origin /\ l.to = e
                        /\ l.n = rxq[e][i].n /\ l.res = "ok"
            /\ \A j \in 1..Len(posted[e]) :
                  /\ posted[e][j].channel \in Range(clients[e].channels)
                  /\ posted[e][j].msg.origin # e)
    /\ [](\A l \in sendlog : \E r \in seen : r.to = l.from /\ r.n = l.n)

SingleHopWitness ==
    \E a, e, c \in Clients :
        /\ a # e /\ c # e /\ c # a
        /\ \E j \in 1..Len(posted[e]) : posted[e][j].msg.origin = a
        /\ Len(posted[e]) = Len(clients[e].channels)
        /\ c \in Range(loop_tx[e])
        /\ status[c] = "running"
        /\ sends[e] = {}
        /\ \A l \in sendlog : l.from # e
        /\ rxq[c] # <<>>

====
